---- MODULE Spec2Model ----
(***************************************************************************)
(* PageRank (pagerank.py): the transition model, the random-walk sampler   *)
(* and the iterative solver, over exact rational arithmetic.               *)
(*                                                                         *)
(* A page is a number 1..N (the dictionary's insertion order); a corpus is *)
(* a function from 1..N to sets of pages.  A rational is a pair            *)
(* <<numerator, denominator>> in lowest terms with a positive denominator. *)
(***************************************************************************)
EXTENDS Integers, Sequences, FiniteSets, TLC

VARIABLES call, pc, corpus, damping_factor, page, probabilities,
          n, page_counts, current_page, i,
          convergence_threshold, pagerank, new_pagerank, converged, iters,
          ret, error

vars == <<call, pc, corpus, damping_factor, page, probabilities,
          n, page_counts, current_page, i,
          convergence_threshold, pagerank, new_pagerank, converged, iters,
          ret, error>>

(* ------------------------------ bounds --------------------------------- *)
MaxPages == 3
MaxLinks == 3
MaxSamples == 2
MaxIter == 4

(* ------------------------- rational arithmetic ------------------------- *)
RECURSIVE GCD(_, _)
GCD(a, b) == IF b = 0 THEN a ELSE GCD(b, a % b)

IAbs(a) == IF a < 0 THEN 0 - a ELSE a

Norm(a, b) == LET g == GCD(IAbs(a), b) IN <<a \div g, b \div g>>

R(a, b) == Norm(a, b)

Zero == <<0, 1>>
One == <<1, 1>>

RAdd(x, y) ==
    LET g == GCD(x[2], y[2])
        l == (x[2] \div g) * y[2]
    IN  Norm(x[1] * (l \div x[2]) + y[1] * (l \div y[2]), l)

RNeg(x) == <<0 - x[1], x[2]>>

RSub(x, y) == RAdd(x, RNeg(y))

RMul(x, y) ==
    LET g1 == GCD(IAbs(x[1]), y[2])
        g2 == GCD(IAbs(y[1]), x[2])
    IN  <<(x[1] \div g1) * (y[1] \div g2), (x[2] \div g2) * (y[2] \div g1)>>

\* x / k for an integer k > 0 (a length or a page count)
RDivInt(x, k) == RMul(x, <<1, k>>)

RAbs(x) == <<IAbs(x[1]), x[2]>>

RLe(x, y) == RSub(x, y)[1] <= 0

RLt(x, y) == RSub(x, y)[1] < 0

\* sum of the values of a mapping over pages 1..k
RECURSIVE RSumTo(_, _)
RSumTo(f, k) == IF k = 0 THEN Zero ELSE RAdd(RSumTo(f, k - 1), f[k])

RSum(f) == RSumTo(f, Cardinality(DOMAIN f))

(* ------------------------------ inputs --------------------------------- *)
DAMPING == R(85, 100)

Keys(c) == DOMAIN c

NumLinks(c) == Cardinality({e \in Keys(c) \X Keys(c) : e[2] \in c[e[1]]})

\* what crawl() hands over: links only to pages of the corpus, never to the
\* page itself
Graphs(N) ==
    {c \in [1..N -> SUBSET (1..N)] :
        (\A p \in 1..N : p \notin c[p]) /\ NumLinks(c) <= MaxLinks}

Corpora == UNION {Graphs(N) : N \in 0..MaxPages}

\* sample_pagerank is called with dampings in [0, 1] only: with a weight
\* below 0, what random.choices draws depends on a bisection over unsorted
\* cumulative weights.  Between 0 and 1 every page has a positive weight, so
\* one such damping stands for all of them in the walk.
TransitionDampings == {R(0, 1), R(1, 4), R(1, 2), DAMPING, R(1, 1)}
SampleDampings == {DAMPING, R(1, 1)}
IterateDampings == {R(0, 1), R(1, 2), R(1, 1), R(3, 2)}
Thresholds == {R(0, 1), R(1, 10), R(1, 3)}
SampleCounts == (0 - 1)..MaxSamples

(* -------------------------- transition_model --------------------------- *)
linked_pages_NoSink(c, pg) == c[pg]

linked_pages(c, pg) == IF Cardinality(c[pg]) = 0 THEN Keys(c) ELSE c[pg]

transition_model_ShareByN(c, pg, d) ==
    LET num_pages == Cardinality(Keys(c))
        linked == linked_pages(c, pg)
    IN  [p \in Keys(c) |->
            IF p \in linked
            THEN RAdd(RDivInt(RSub(One, d), num_pages),
                      RDivInt(d, num_pages))
            ELSE RDivInt(RSub(One, d), num_pages)]

transition_model(c, pg, d) ==
    LET num_pages == Cardinality(Keys(c))
        linked == linked_pages(c, pg)
    IN  [p \in Keys(c) |->
            IF p \in linked
            THEN RAdd(RDivInt(RSub(One, d), num_pages),
                      RDivInt(d, Cardinality(linked)))
            ELSE RDivInt(RSub(One, d), num_pages)]

(* --------------------------- sample_pagerank --------------------------- *)
\* random.choices(population, weights): a page whose weight is positive
Choices(probs) == {p \in DOMAIN probs : RLt(Zero, probs[p])}

Counts_ByPages(counts, k) ==
    [p \in DOMAIN counts |-> R(counts[p], Cardinality(DOMAIN counts))]

Counts(counts, k) == [p \in DOMAIN counts |-> R(counts[p], k)]

(* -------------------------- iterate_pagerank --------------------------- *)
\* The body of lines 157-185, with the parameters of the def of line 148
\* (the def of line 139 holds nothing but a docstring).
RECURSIVE rank_sum_NoSink(_, _, _, _)
rank_sum_NoSink(c, ranks, pg, k) ==
    IF k = 0 THEN Zero
    ELSE LET s0 == rank_sum_NoSink(c, ranks, pg, k - 1)
         IN  IF pg \in c[k]
             THEN RAdd(s0, RDivInt(ranks[k], Cardinality(c[k])))
             ELSE s0

RECURSIVE rank_sum(_, _, _, _)
rank_sum(c, ranks, pg, k) ==
    IF k = 0 THEN Zero
    ELSE LET s0 == rank_sum(c, ranks, pg, k - 1)
             s1 == IF pg \in c[k]
                   THEN RAdd(s0, RDivInt(ranks[k], Cardinality(c[k])))
                   ELSE s0
         IN  IF Cardinality(c[k]) = 0
             THEN RAdd(s1, RDivInt(ranks[k], Cardinality(Keys(c))))
             ELSE s1

NewRank_NoDamping(c, d, ranks, pg) ==
    LET num_pages == Cardinality(Keys(c))
    IN  RAdd(RDivInt(RSub(One, d), num_pages),
             rank_sum(c, ranks, pg, num_pages))

NewRank(c, d, ranks, pg) ==
    LET num_pages == Cardinality(Keys(c))
    IN  RAdd(RDivInt(RSub(One, d), num_pages),
             RMul(d, rank_sum(c, ranks, pg, num_pages)))

Converged_Strict(new, old, threshold) ==
    \A p \in DOMAIN old : RLt(RAbs(RSub(new[p], old[p])), threshold)

Converged_LastPage(new, old, threshold) ==
    \A p \in DOMAIN old :
        p = Cardinality(DOMAIN old)
            => RLe(RAbs(RSub(new[p], old[p])), threshold)

Converged(new, old, threshold) ==
    \A p \in DOMAIN old : RLe(RAbs(RSub(new[p], old[p])), threshold)

\* one complete pass of the for loop of lines 167-174
RelaxAll(c, d, ranks) == [p \in Keys(c) |-> NewRank(c, d, ranks, p)]

(* ------------------------------- Init ---------------------------------- *)
Init ==
    /\ call \in {"transition_model", "sample_pagerank", "iterate_pagerank"}
    /\ pc = "call"
    /\ corpus \in Corpora
    /\ \/ /\ call = "transition_model"
          /\ damping_factor \in TransitionDampings
          /\ page \in 1..MaxPages
          /\ n = 0
          /\ convergence_threshold = Zero
       \/ /\ call = "sample_pagerank"
          /\ damping_factor \in SampleDampings
          /\ n \in SampleCounts
          /\ page = 0
          /\ convergence_threshold = Zero
       \/ /\ call = "iterate_pagerank"
          /\ damping_factor \in IterateDampings
          /\ convergence_threshold \in Thresholds
          /\ page = 0
          /\ n = 0
    /\ probabilities = <<>>
    /\ page_counts = <<>>
    /\ current_page = 0
    /\ i = 0
    /\ pagerank = <<>>
    /\ new_pagerank = <<>>
    /\ converged = FALSE
    /\ iters = 0
    /\ ret = <<>>
    /\ error = "none"

(* ------------------------------ actions -------------------------------- *)
\* transition_model(corpus, page, damping_factor), lines 51-82
TransitionCall ==
    /\ pc = "call" /\ call = "transition_model"
    /\ IF page \in Keys(corpus)
       THEN /\ probabilities' = transition_model(corpus, page, damping_factor)
            /\ ret' = probabilities'
            /\ pc' = "done"
            /\ error' = error
       ELSE /\ error' = "KeyError"
            /\ pc' = "error"
            /\ UNCHANGED <<probabilities, ret>>
    /\ UNCHANGED <<call, corpus, damping_factor, page, n, page_counts,
                   current_page, i, convergence_threshold, pagerank,
                   new_pagerank, converged, iters>>

\* sample_pagerank, lines 106-109
SampleBegin ==
    /\ pc = "call" /\ call = "sample_pagerank"
    /\ page_counts' = [p \in Keys(corpus) |-> 0]
    /\ IF Keys(corpus) = {}
       THEN /\ error' = "IndexError"
            /\ pc' = "error"
            /\ current_page' = current_page
       ELSE /\ current_page' \in Keys(corpus)
            /\ pc' = "walk"
            /\ error' = error
    /\ i' = 0
    /\ UNCHANGED <<call, corpus, damping_factor, page, probabilities, n,
                   convergence_threshold, pagerank, new_pagerank, converged,
                   iters, ret>>

\* one pass of the loop of lines 112-121
WalkStep ==
    /\ pc = "walk" /\ i < n
    /\ page_counts' = [page_counts EXCEPT ![current_page] = @ + 1]
    /\ probabilities' = transition_model(corpus, current_page, damping_factor)
    /\ current_page' \in Choices(probabilities')
    /\ i' = i + 1
    /\ UNCHANGED <<call, pc, corpus, damping_factor, page, n,
                   convergence_threshold, pagerank, new_pagerank, converged,
                   iters, ret, error>>

\* lines 124-126
SampleReturn ==
    /\ pc = "walk" /\ ~(i < n)
    /\ IF n = 0
       THEN /\ error' = "ZeroDivisionError"
            /\ pc' = "error"
            /\ ret' = ret
       ELSE /\ ret' = (IF n > 0 THEN Counts(page_counts, n)
                       ELSE [p \in Keys(corpus) |-> Zero])
            /\ pc' = "done"
            /\ error' = error
    /\ UNCHANGED <<call, corpus, damping_factor, page, probabilities, n,
                   page_counts, current_page, i, convergence_threshold,
                   pagerank, new_pagerank, converged, iters>>

\* iterate_pagerank, lines 158-164
IterateBegin ==
    /\ pc = "call" /\ call = "iterate_pagerank"
    /\ pagerank' = [p \in Keys(corpus) |-> R(1, Cardinality(Keys(corpus)))]
    /\ converged' = FALSE
    /\ pc' = "while"
    /\ UNCHANGED <<call, corpus, damping_factor, page, probabilities, n,
                   page_counts, current_page, i, convergence_threshold,
                   new_pagerank, iters, ret, error>>

\* lines 165-166: the loop is entered once more.  The code counts no passes;
\* iters is the model's count and a run is followed for MaxIter passes.
LoopHead ==
    /\ pc = "while" /\ ~converged
    /\ iters < MaxIter
    /\ new_pagerank' = <<>>
    /\ iters' = iters + 1
    /\ pc' = "for"
    /\ UNCHANGED <<call, corpus, damping_factor, page, probabilities, n,
                   page_counts, current_page, i, convergence_threshold,
                   pagerank, converged, ret, error>>

\* lines 167-174, for the next page of the corpus
RelaxPage ==
    /\ pc = "for" /\ Len(new_pagerank) < Cardinality(Keys(corpus))
    /\ new_pagerank' =
          Append(new_pagerank,
                 NewRank(corpus, damping_factor, pagerank,
                         Len(new_pagerank) + 1))
    /\ UNCHANGED <<call, pc, corpus, damping_factor, page, probabilities, n,
                   page_counts, current_page, i, convergence_threshold,
                   pagerank, converged, iters, ret, error>>

\* lines 177-183
CheckConvergence ==
    /\ pc = "for" /\ Len(new_pagerank) = Cardinality(Keys(corpus))
    /\ converged' = Converged(new_pagerank, pagerank, convergence_threshold)
    /\ pagerank' = new_pagerank
    /\ pc' = "while"
    /\ UNCHANGED <<call, corpus, damping_factor, page, probabilities, n,
                   page_counts, current_page, i, convergence_threshold,
                   new_pagerank, iters, ret, error>>

\* line 165 (loop left), line 185
IterateReturn ==
    /\ pc = "while" /\ converged
    /\ ret' = pagerank
    /\ pc' = "done"
    /\ UNCHANGED <<call, corpus, damping_factor, page, probabilities, n,
                   page_counts, current_page, i, convergence_threshold,
                   pagerank, new_pagerank, converged, iters, error>>

Next ==
    \/ TransitionCall
    \/ SampleBegin
    \/ WalkStep
    \/ SampleReturn
    \/ IterateBegin
    \/ LoopHead
    \/ RelaxPage
    \/ CheckConvergence
    \/ IterateReturn

Spec == Init /\ [][Next]_vars

TypeOK ==
    /\ pc \in {"call", "walk", "while", "for", "done", "error"}
    /\ error \in {"none", "KeyError", "IndexError", "ZeroDivisionError"}
    /\ iters \in 0..MaxIter

(* ------------------------- terms of the claims ------------------------- *)
NumPages == Cardinality(Keys(corpus))

ValidDamping == RLe(Zero, damping_factor) /\ RLe(damping_factor, One)

ValidIterateInput ==
    /\ NumPages > 0
    /\ ValidDamping
    /\ RLt(Zero, convergence_threshold)

ValidSampleInput == NumPages > 0 /\ ValidDamping /\ n > 0

Sinks == {p \in Keys(corpus) : corpus[p] = {}}

\* |next[p] - prev[p]|
Change(next, prev, p) == RAbs(RSub(next[p], prev[p]))

\* the sum over pages 1..k of |next[p] - prev[p]|
RECURSIVE TotalChange(_, _, _)
TotalChange(next, prev, k) ==
    IF k = 0 THEN Zero
    ELSE RAdd(TotalChange(next, prev, k - 1), Change(next, prev, k))

\* probability of being at page p after one step of the chain that
\* sample_pagerank walks, started from the distribution ranks
RECURSIVE ChainStep(_, _, _)
ChainStep(ranks, p, k) ==
    IF k = 0 THEN Zero
    ELSE RAdd(ChainStep(ranks, p, k - 1),
              RMul(ranks[k], transition_model(corpus, k, damping_factor)[p]))

IsDistribution(f) ==
    /\ DOMAIN f = Keys(corpus)
    /\ \A p \in DOMAIN f : RLe(Zero, f[p])
    /\ RSum(f) = One

(* ------------------------------- claims -------------------------------- *)

\* C1: iterate_pagerank always terminates on valid input.  The loop is
\* deterministic, so a terminating run never comes back, without having
\* converged, to the ranks it held at an earlier loop test: here, the ranks
\* at the loop test are never reproduced by two further unconverged passes.
C1_NoRecurrentLoopState ==
    (call = "iterate_pagerank" /\ ValidIterateInput
        /\ pc = "while" /\ ~converged)
    => LET r1 == RelaxAll(corpus, damping_factor, pagerank)
           r2 == RelaxAll(corpus, damping_factor, r1)
       IN  ~(/\ ~Converged(r1, pagerank, convergence_threshold)
             /\ ~Converged(r2, r1, convergence_threshold)
             /\ r2 = pagerank)

\* C2: for a damping strictly between 0 and 1 and a page of a non-empty
\* corpus, the mapping transition_model returns has exactly the pages of the
\* corpus as keys, no negative value, and values that sum to 1.
C2_TransitionIsDistribution ==
    /\ (call = "transition_model" /\ pc = "done"
          /\ RLt(Zero, damping_factor) /\ RLt(damping_factor, One))
       => IsDistribution(ret)
    /\ (call = "sample_pagerank" /\ i > 0
          /\ RLt(Zero, damping_factor) /\ RLt(damping_factor, One))
       => IsDistribution(probabilities)

C2_Witness ==
    /\ call = "transition_model" /\ pc = "done"
    /\ damping_factor = DAMPING
    /\ NumPages = 3
    /\ Cardinality(corpus[page]) = 1
    /\ \E p \in Keys(corpus) : ret[p] = R(5, 100)
    /\ \E p \in Keys(corpus) : ret[p] = R(90, 100)

\* C3: called on a page without links, transition_model returns what it
\* returns for a page that links to every page of the corpus, which is 1/N
\* for each page, and it leaves the corpus as it was.
C3_SinkTransition ==
    [][/\ (pc = "call" /\ call = "transition_model"
             /\ page \in Keys(corpus) /\ corpus[page] = {})
          => /\ ret' = transition_model(
                           [corpus EXCEPT ![page] = Keys(corpus)],
                           page, damping_factor)
             /\ \A p \in Keys(corpus) : ret'[p] = R(1, NumPages)
             /\ corpus' = corpus
       /\ (pc = "walk" /\ i < n /\ corpus[current_page] = {})
          => /\ probabilities' = transition_model(
                           [corpus EXCEPT ![current_page] = Keys(corpus)],
                           current_page, damping_factor)
             /\ \A p \in Keys(corpus) : probabilities'[p] = R(1, NumPages)
             /\ corpus' = corpus]_vars

C3_Witness ==
    /\ call = "transition_model" /\ pc = "done"
    /\ NumPages = 3
    /\ corpus[page] = {}
    /\ damping_factor = DAMPING
    /\ \A p \in Keys(corpus) : ret[p] = R(1, 3)

\* C4: on a non-empty corpus, the ranks of iterate_pagerank sum to 1 when
\* they are initialised, after every relaxation pass, and when returned,
\* whether or not the corpus has pages without links.
C4_MassConservation ==
    (call = "iterate_pagerank" /\ NumPages > 0)
    => /\ pc \in {"while", "for", "done"} => RSum(pagerank) = One
       /\ (pc = "for" /\ Len(new_pagerank) = NumPages)
             => RSum(new_pagerank) = One
       /\ pc = "done" => RSum(ret) = One

C4_Witness ==
    /\ call = "iterate_pagerank" /\ pc = "done"
    /\ ValidIterateInput
    /\ NumPages = 3
    /\ Sinks # {} /\ Sinks # Keys(corpus)
    /\ iters >= 2
    /\ \E p \in Keys(corpus) : ret[p] # R(1, 3)

\* C5 as stated: one more relaxation pass over the ranks iterate_pagerank
\* returned changes every page's rank by less than the threshold.
C5_Idempotence ==
    (call = "iterate_pagerank" /\ pc = "done" /\ ValidIterateInput)
    => \A p \in Keys(corpus) :
          RLt(Change(RelaxAll(corpus, damping_factor, ret), ret, p),
              convergence_threshold)

\* C5 amended: one more relaxation pass over the ranks iterate_pagerank
\* returned changes the ranks by at most damping * N * threshold in total
\* (the sum over the pages of the absolute changes), N the number of pages,
\* hence every page's rank by at most that.
C5_BoundedChange ==
    (call = "iterate_pagerank" /\ pc = "done" /\ ValidIterateInput)
    => RLe(TotalChange(RelaxAll(corpus, damping_factor, ret), ret, NumPages),
           RMul(damping_factor,
                RMul(R(NumPages, 1), convergence_threshold)))

C5_Witness ==
    /\ call = "iterate_pagerank" /\ pc = "done" /\ ValidIterateInput
    /\ \E p \in Keys(corpus) :
          RLe(convergence_threshold,
              Change(RelaxAll(corpus, damping_factor, ret), ret, p))

\* C6: on a non-empty corpus with n >= 1, after k passes of the walk the
\* visit counts sum to k and the current page is a page of the corpus; the
\* result has one entry count/n for each page, each within [0, 1], and the
\* entries sum to 1.
C6_SampleIsDistribution ==
    (call = "sample_pagerank" /\ ValidSampleInput)
    => /\ pc = "walk"
          => /\ RSum([p \in Keys(corpus) |-> R(page_counts[p], 1)]) = R(i, 1)
             /\ current_page \in Keys(corpus)
             /\ i <= n
       /\ pc = "done"
          => /\ i = n
             /\ DOMAIN ret = Keys(corpus)
             /\ \A p \in Keys(corpus) :
                   /\ ret[p] = R(page_counts[p], n)
                   /\ RLe(Zero, ret[p]) /\ RLe(ret[p], One)
             /\ RSum(ret) = One
       /\ pc # "error"

C6_Witness ==
    /\ call = "sample_pagerank" /\ pc = "done"
    /\ n = MaxSamples
    /\ NumPages = 3
    /\ \E p \in Keys(corpus) : ret[p] = Zero
    /\ \E p \in Keys(corpus) : RLt(Zero, ret[p]) /\ RLt(ret[p], One)

\* C7: iterate_pagerank rejects an empty corpus, a damping outside [0, 1]
\* and a threshold <= 0 with InvalidInput before it computes anything; it
\* never gets as far as the loop or a returned mapping.
C7_IterateRejectsInvalidInput ==
    (call = "iterate_pagerank" /\ ~ValidIterateInput)
    => /\ pc \in {"call", "error"}
       /\ pc = "error" => error = "InvalidInput"

\* C8: sample_pagerank rejects n <= 0, an empty corpus and a damping
\* outside [0, 1] with InvalidInput; it neither returns a distribution nor
\* fails with another error.
C8_SampleRejectsInvalidInput ==
    (call = "sample_pagerank" /\ ~ValidSampleInput)
    => /\ pc \in {"call", "error"}
       /\ pc = "error" => error = "InvalidInput"

\* C9: a relaxation pass ends the loop exactly when every page's rank moved
\* by at most the threshold in that pass; the loop is then left at once, and
\* what is returned is the ranks that pass computed.
C9_ConvergenceCriterion ==
    [][/\ (pc = "for" /\ pc' = "while")
          => /\ converged' <=>
                   \A p \in Keys(corpus) :
                       RLe(RAbs(RSub(new_pagerank[p], pagerank[p])),
                           convergence_threshold)
             /\ pagerank' = new_pagerank
       /\ (pc = "while" /\ converged)
          => /\ pc' = "done"
             /\ ret' = new_pagerank
       /\ (call = "iterate_pagerank" /\ pc # "done" /\ pc' = "done")
          => converged]_vars

C9_Witness ==
    /\ call = "iterate_pagerank" /\ pc = "done" /\ ValidIterateInput
    /\ NumPages = 3
    /\ iters >= 3
    /\ ret = new_pagerank

\* C10: every rank a relaxation pass has computed so far is the probability
\* of that page after one step of the walk's chain from the previous ranks:
\* the sum over the pages q of previous[q] * transition_model(q)[p].
C10_RelaxationIsChainStep ==
    (call = "iterate_pagerank" /\ pc = "for" /\ RSum(pagerank) = One)
    => \A p \in 1..Len(new_pagerank) :
          new_pagerank[p] = ChainStep(pagerank, p, NumPages)

C10_Witness ==
    /\ call = "iterate_pagerank" /\ pc = "for" /\ ValidIterateInput
    /\ NumPages = 3
    /\ Len(new_pagerank) = 3
    /\ iters >= 2
    /\ Sinks # {}
    /\ \E p \in Keys(corpus) : pagerank[p] # R(1, 3)
    /\ \E p \in Keys(corpus) : new_pagerank[p] # pagerank[p]
====
